---------------------------- MODULE Spec2Model ----------------------------
(***************************************************************************)
(* A model of dev_news.py: the text segmenter (chunk_text), the card       *)
(* clamp (_clean_embed), the size-budget fitter (_shrink_to_fit), the      *)
(* batching and oversize-retry dispatch (_send_embeds_in_batches,          *)
(* _retry_shrink_and_send) and the three outcomes of main.                 *)
(*                                                                         *)
(* Strings are kept run-length encoded: a string is a sequence of runs     *)
(* [c |-> character, n |-> repetitions], adjacent runs holding different   *)
(* characters.  This keeps the program's real size constants (256, 450,    *)
(* 3500, 6000, ...) while the strings stay small values.                   *)
(***************************************************************************)
EXTENDS Integers, Sequences, FiniteSets, TLC

VARIABLES
    pc,        \* position of the run being modelled
    txt,       \* chunk_text: the text argument
    size,      \* chunk_text: the size argument
    chunks,    \* chunk_text: the returned list
    e,         \* _clean_embed / _shrink_to_fit: the card argument
    target,    \* _shrink_to_fit: the target argument
    out,       \* _clean_embed(e), or the state _shrink_to_fit returns in
    out2,      \* _clean_embed(_clean_embed(e))
    guard,     \* _shrink_to_fit: the two loops' guard counters on return
    gen,       \* main: what call_openai_websearch did
    args,      \* post_discord_embeds: title, description, bullets, links
    embeds,    \* _send_embeds_in_batches: the list of cards
    i,         \* _send_embeds_in_batches: start index of the current batch
    payload,   \* _retry_shrink_and_send: the cards of the current payload
    attempt,   \* _retry_shrink_and_send: the loop variable
    sent,      \* every transport call made so far, in order
    raised     \* the exception that ended the run, or "none"

vars == <<pc, txt, size, chunks, e, target, out, out2, guard,
          gen, args, embeds, i, payload, attempt, sent, raised>>

-----------------------------------------------------------------------------
(* Characters.  NL is "\n", SP is " ", ELL is the one-character ellipsis.  *)

NL == "nl"
SP == "sp"
CR == "cr"
TAB == "tab"
HASH == "#"
DASH == "-"
ELL == "ell"

\* What Python's str.strip() and the regex class \s take as whitespace.
IsSpace(c) == c \in {SP, NL, CR, TAB}

\* The regex class [\-\*\•].
IsBullet(c) == c \in {DASH, "*", "bullet"}

Min(a, b) == IF a < b THEN a ELSE b
Max(a, b) == IF a > b THEN a ELSE b

\* n copies of character c.
Rep(c, n) == IF n <= 0 THEN <<>> ELSE <<[c |-> c, n |-> n]>>

\* s + t, for s and t in canonical form: the runs that meet are merged.
Cat(s, t) ==
    IF s = <<>> THEN t
    ELSE IF t = <<>> THEN s
         ELSE IF s[Len(s)].c = t[1].c
              THEN SubSeq(s, 1, Len(s) - 1)
                       \o <<[c |-> t[1].c, n |-> s[Len(s)].n + t[1].n]>>
                       \o SubSeq(t, 2, Len(t))
              ELSE s \o t

RECURSIVE Canon(_)
\* The canonical form: no empty run, adjacent runs of different characters.
\* (Halving keeps the evaluation shallow.)
Canon(s) ==
    IF Len(s) = 0 THEN <<>>
    ELSE IF Len(s) = 1 THEN (IF s[1].n <= 0 THEN <<>> ELSE <<s[1]>>)
         ELSE Cat(Canon(SubSeq(s, 1, Len(s) \div 2)),
                  Canon(SubSeq(s, Len(s) \div 2 + 1, Len(s))))

RECURSIVE StrLen(_)
\* len(s)
StrLen(s) ==
    IF Len(s) = 0 THEN 0
    ELSE IF Len(s) = 1 THEN s[1].n
         ELSE StrLen(SubSeq(s, 1, Len(s) \div 2))
                  + StrLen(SubSeq(s, Len(s) \div 2 + 1, Len(s)))

\* The number of characters of s that stand before its j-th run.
Before(s, j) == StrLen(SubSeq(s, 1, j - 1))

\* s[:k] for k >= 0: of each run, what lies before position k.
Prefix(s, k) ==
    Canon([j \in 1..Len(s) |->
              [c |-> s[j].c, n |-> Min(s[j].n, k - Before(s, j))]])

\* s[k:] for k >= 0: of each run, what lies at position k or after.
Drop(s, k) ==
    Canon([j \in 1..Len(s) |->
              [c |-> s[j].c, n |-> Min(s[j].n, Before(s, j) + s[j].n - k)]])

\* s[a:b] for 0 <= a <= b
Slice(s, a, b) == Prefix(Drop(s, a), b - a)

\* s[:-k] for k > 0
DropLast(s, k) == Prefix(s, Max(StrLen(s) - k, 0))

\* The least member of a non-empty set of integers.
Least(J) == CHOOSE j \in J : \A k \in J : j <= k

\* The greatest member of a non-empty set of integers.
Greatest(J) == CHOOSE j \in J : \A k \in J : j >= k

\* The runs of s from the k+1-th on.
Rest(s, k) == SubSeq(s, k + 1, Len(s))

\* The indexes of the runs of s that are not whitespace.
NonSpace(s) == {j \in 1..Len(s) : ~IsSpace(s[j].c)}

\* The least member of J, or otherwise when J is empty.
LeastOr(J, otherwise) == IF J = {} THEN otherwise ELSE Least(J)

\* How many leading runs of s are whitespace.
SpaceRuns(s) == LeastOr(NonSpace(s), Len(s) + 1) - 1

\* The runs of s from the first to the last of those indexed by J.
Between(s, J) == IF J = {} THEN <<>> ELSE SubSeq(s, Least(J), Greatest(J))

\* s.strip()
Strip(s) == Between(s, NonSpace(s))

\* s.replace(c, "")
Remove(s, c) == Canon(SelectSeq(s, LAMBDA r : r.c # c))

\* s with its first character removed.
Dec(s) ==
    IF s[1].n > 1 THEN <<[c |-> s[1].c, n |-> s[1].n - 1]>> \o Tail(s)
    ELSE Tail(s)

\* The index of the first newline run of s, Len(s) + 1 when it has none.
NextNL(s) == LeastOr({j \in 1..Len(s) : s[j].c = NL}, Len(s) + 1)

RECURSIVE JoinNL(_)
\* "\n".join(ss)
JoinNL(ss) ==
    IF Len(ss) = 0 THEN <<>>
    ELSE IF Len(ss) = 1 THEN ss[1]
         ELSE Cat(Cat(JoinNL(SubSeq(ss, 1, Len(ss) \div 2)), Rep(NL, 1)),
                  JoinNL(SubSeq(ss, Len(ss) \div 2 + 1, Len(ss))))

RECURSIVE JoinAll(_)
\* "".join(ss)
JoinAll(ss) ==
    IF Len(ss) = 0 THEN <<>>
    ELSE IF Len(ss) = 1 THEN ss[1]
         ELSE Cat(JoinAll(SubSeq(ss, 1, Len(ss) \div 2)),
                  JoinAll(SubSeq(ss, Len(ss) \div 2 + 1, Len(ss))))

-----------------------------------------------------------------------------
(* _normalize_text *)

RECURSIVE SubHeading(_, _)
RECURSIVE SubHeadingPast(_, _)
\* The match has taken the "#" run before t; it takes the k2 whitespace
\* runs of t too, and the scan goes on behind them.
SubHeadingPast(t, k2) == SubHeading(Rest(t, k2), k2 > 0 /\ t[k2].c = NL)

RECURSIVE SubHeadingLine(_, _)
\* No match starts in the first k runs of s: they are copied.
SubHeadingLine(s, k) == SubSeq(s, 1, k) \o SubHeading(Rest(s, k), FALSE)

RECURSIVE SubHeadingAt(_, _, _)
\* r is s without its leading whitespace runs.
SubHeadingAt(s, bol, r) ==
    IF bol /\ r # <<>> /\ r[1].c = HASH
    THEN SubHeadingPast(Rest(r, 1), SpaceRuns(Rest(r, 1)))
    ELSE IF s[1].c = NL
         THEN Rep(NL, 1) \o SubHeading(Dec(s), TRUE)
         ELSE SubHeadingLine(s, NextNL(s) - 1)

\* re.sub(r"^\s*#+\s*", "", s, flags=re.MULTILINE); bol: the scan stands
\* at the start of s or right after a newline.  Where no match starts, a
\* newline is copied and the scan stands at a line start again, or the text
\* up to the next newline is copied: no match can start inside it.
SubHeading(s, bol) ==
    IF s = <<>> THEN <<>> ELSE SubHeadingAt(s, bol, Rest(s, SpaceRuns(s)))

RECURSIVE SubBullet(_, _)
RECURSIVE SubBulletPast(_, _)
\* The match has taken the bullet before t; it takes the k2 whitespace runs
\* of t too.
SubBulletPast(t, k2) == SubBullet(Rest(t, k2), k2 > 0 /\ t[k2].c = NL)

RECURSIVE SubBulletLine(_, _)
SubBulletLine(s, k) == SubSeq(s, 1, k) \o SubBullet(Rest(s, k), FALSE)

\* re.sub(r"^[\-\*\•]\s*", "", s, flags=re.MULTILINE)
SubBullet(s, bol) ==
    IF s = <<>> THEN <<>>
    ELSE IF bol /\ IsBullet(s[1].c)
         THEN IF s[1].n > 1
              THEN SubBullet(Dec(s), FALSE)
              ELSE SubBulletPast(Rest(s, 1), SpaceRuns(Rest(s, 1)))
         ELSE IF s[1].c = NL
              THEN Rep(NL, 1) \o SubBullet(Dec(s), TRUE)
              ELSE SubBulletLine(s, NextNL(s) - 1)

IsBlank(c) == c \in {SP, TAB}

\* re.sub(r"[ \t]{2,}", " ", s): of a group of adjacent space and tab runs
\* that holds two characters or more, the first run becomes one space and
\* the others go.
CompressSpaces(s) ==
    LET InGroup(j) == IsBlank(s[j].c)
        First(j)   == InGroup(j) /\ (j = 1 \/ ~InGroup(j - 1))
        Alone(j)   == First(j) /\ (j = Len(s) \/ ~InGroup(j + 1))
        Piece(j)   == IF ~InGroup(j) THEN s[j]
                      ELSE IF Alone(j) /\ s[j].n = 1 THEN s[j]
                           ELSE IF First(j) THEN [c |-> SP, n |-> 1]
                                ELSE [c |-> SP, n |-> 0]
    IN  Canon([j \in 1..Len(s) |-> Piece(j)])

normalize_text(s) ==
    IF s = <<>> THEN <<>>
    ELSE Strip(CompressSpaces(Canon(SubBullet(Canon(SubHeading(Remove(s, CR), TRUE)),
                                              TRUE))))

-----------------------------------------------------------------------------
(* chunk_text *)

RECURSIVE SplitLines(_)
RECURSIVE SplitAt(_, _)
\* k is the index of the first newline run of s.
SplitAt(s, k) ==
    IF k > Len(s) THEN <<s>>
    ELSE <<SubSeq(s, 1, k - 1)>> \o SplitLines(Dec(Rest(s, k - 1)))

\* s.splitlines(), for a string whose only line separator is "\n"
SplitLines(s) == IF s = <<>> THEN <<>> ELSE SplitAt(s, NextNL(s))

RECURSIVE HardSplitFrom(_, _, _)
HardSplitFrom(line, sz, k) ==
    IF k >= StrLen(line) THEN <<>>
    ELSE <<Slice(line, k, k + sz)>> \o HardSplitFrom(line, sz, k + sz)

\* A hard split that was forgotten: the long line is kept whole.
HardSplitNone(line, sz) == <<line>>

\* for i in range(0, len(line), size): chunks.append(line[i:i+size])
HardSplit(line, sz) == HardSplitFrom(line, sz, 0)

\* The chunks without "if buf: chunks.append(buf)": a full buffer is
\* overwritten instead of flushed.
FlushedNever(st) == st.chunks

\* Inside the loop: if buf: chunks.append(buf)
Flushed(st) == IF st.buf # <<>> THEN Append(st.chunks, st.buf) ELSE st.chunks

\* The line does not fit the buffer: it is hard-split or opens a new one.
Overflow(flushed, line, sz) ==
    IF StrLen(line) > sz
    THEN [chunks |-> flushed \o HardSplit(line, sz), buf |-> <<>>]
    ELSE [chunks |-> flushed, buf |-> line]

\* The loop's turn for a stripped line.
ChunkLine(st, line, sz) ==
    IF line = <<>> THEN st
    ELSE IF StrLen(st.buf) + StrLen(line) + (IF st.buf = <<>> THEN 0 ELSE 1) > sz
         THEN Overflow(Flushed(st), line, sz)
         ELSE [chunks |-> st.chunks,
               buf    |-> IF st.buf # <<>>
                          THEN Cat(Cat(st.buf, Rep(NL, 1)), line)
                          ELSE line]

\* One turn of the loop over the lines; st = [chunks, buf].
ChunkStep(st, rawline, sz) == ChunkLine(st, Strip(rawline), sz)

RECURSIVE ChunkLoop(_, _, _)
ChunkLoop(lines, st, sz) ==
    IF lines = <<>> THEN st
    ELSE ChunkLoop(Tail(lines), ChunkStep(st, Head(lines), sz), sz)

\* The return without its filter: "return chunks".
FinalChunksUnfiltered(cs, sz) == cs

\* [c[:size] for c in cs]
CutAll(cs, sz) == [j \in 1..Len(cs) |-> Prefix(cs[j], sz)]

\* [c.strip()[:size] for c in chunks if c.strip()]
FinalChunks(cs, sz) ==
    CutAll(SelectSeq([j \in 1..Len(cs) |-> Strip(cs[j])], LAMBDA c : c # <<>>), sz)

\* After the loop: if buf: chunks.append(buf)
WithLastBuf(st) == IF st.buf # <<>> THEN Append(st.chunks, st.buf) ELSE st.chunks

\* chunk_text from "if not txt" on: n is the normalized text.
ChunkNormalized(n, sz) ==
    IF n = <<>> THEN <<>>
    ELSE FinalChunks(
             WithLastBuf(ChunkLoop(SplitLines(n), [chunks |-> <<>>, buf |-> <<>>], sz)),
             sz)

chunk_text(t, sz) == ChunkNormalized(normalize_text(t), sz)

-----------------------------------------------------------------------------
(* Cards.  A key of the dict is absent, None or holds a value:             *)
(*   title, description : [k : {"absent", "none", "str"}, s : string]      *)
(*   fields             : [k : {"absent", "none", "list"}, l : sequence of *)
(*                         [name : string, value : string]]                *)
(*   footer             : [k : {"absent", "none", "dict"}, s : its "text"] *)
(*   color              : [k : {"absent", "int"}, v : integer]             *)

Absent == [k |-> "absent", s |-> <<>>]
None == [k |-> "none", s |-> <<>>]
S(x) == [k |-> "str", s |-> x]
NoFields == [k |-> "absent", l |-> <<>>]
Fields(l) == [k |-> "list", l |-> l]
Footer(x) == [k |-> "dict", s |-> x]
NoColor == [k |-> "absent", v |-> 0]
Color(v) == [k |-> "int", v |-> v]

\* {} : the dict with no key.
EmptyDict ==
    [title |-> Absent, description |-> Absent, fields |-> NoFields,
     footer |-> Absent, color |-> NoColor]

-----------------------------------------------------------------------------
(* Discord limits, lines 25-32 of the source.                              *)

DISCORD_MAX_EMBEDS == 10
DISCORD_MAX_EMBED == 6000
EMBED_TARGET_BUDGET == 3500
DISCORD_MAX_TITLE == 256
DISCORD_MAX_DESC == 4096
FIELD_HARD_MAX == 1024
FIELD_SOFT_MAX == 450
DESC_SOFT_MAX == 180
FIELD_NAME_MAX == 256
GUARD_MAX == 100

\* bool(v) for a string-valued key: present, not None, not "".
Truthy(v) == v.k = "str" /\ v.s # <<>>

\* bool(e.get("fields"))
HasFields(c) == c.fields.k = "list" /\ c.fields.l # <<>>

\* _text_len(e.get(key)) : len(s or "")
text_len(v) == IF v.k \in {"str", "dict"} THEN StrLen(v.s) ELSE 0

-----------------------------------------------------------------------------
(* _clean_embed *)

\* A stripped title or description: dropped when empty, cut to max.
CutStr(s, max) == IF s = <<>> THEN Absent ELSE S(Prefix(s, max))

\* The title / description branch: None and "" after strip() are dropped,
\* the rest is stripped and cut to max.
CleanStr(v, max) == IF v.k # "str" THEN Absent ELSE CutStr(Strip(v.s), max)

\* name = _normalize_text(...); value = _normalize_text(...)
NormField(f) == [k \in {"name", "value"} |-> normalize_text(f[k])]

\* if name and value
FieldKept(nf) == nf.name # <<>> /\ nf.value # <<>>

\* if len(value) > FIELD_SOFT_MAX: value = value[:FIELD_SOFT_MAX] + "…"
SoftCut(value) ==
    IF StrLen(value) > FIELD_SOFT_MAX
    THEN Cat(Prefix(value, FIELD_SOFT_MAX), Rep(ELL, 1))
    ELSE value

\* A kept field: value cut to the soft maximum plus an ellipsis, then to
\* the hard maximum; name cut to 256.
CleanField(nf) ==
    [name  |-> Prefix(nf.name, FIELD_NAME_MAX),
     value |-> Prefix(SoftCut(nf.value), FIELD_HARD_MAX)]

\* The fields that are kept, cut.
CutFields(kept) == [j \in 1..Len(kept) |-> CleanField(kept[j])]

\* vv: the fields normalized, those with a name and a value kept and cut.
CleanFieldList(l) ==
    CutFields(SelectSeq([j \in 1..Len(l) |-> NormField(l[j])], FieldKept))

\* if vv: out[k] = vv
FieldsOrAbsent(vv) == IF vv = <<>> THEN NoFields ELSE Fields(vv)

CleanFields(v) == IF v.k # "list" THEN NoFields ELSE FieldsOrAbsent(CleanFieldList(v.l))

\* Any other key: dropped when None, kept as it is otherwise.
CleanOther(v) == IF v.k = "none" THEN Absent ELSE v

clean_embed(c) ==
    [title       |-> CleanStr(c.title, DISCORD_MAX_TITLE),
     description |-> CleanStr(c.description, DISCORD_MAX_DESC),
     fields      |-> CleanFields(c.fields),
     footer      |-> CleanOther(c.footer),
     color       |-> c.color]

-----------------------------------------------------------------------------
(* _embed_size *)

RECURSIVE FieldsSize(_)
FieldsSize(l) ==
    IF l = <<>> THEN 0
    ELSE StrLen(Head(l).name) + StrLen(Head(l).value) + FieldsSize(Tail(l))

embed_size(c) ==
    text_len(c.title) + text_len(c.description)
        + (IF c.fields.k = "list" THEN FieldsSize(c.fields.l) ELSE 0)
        + text_len(c.footer)

-----------------------------------------------------------------------------
(* _shrink_to_fit *)

\* e["description"] = desc[:-cut] + "…"
CutDescription(c, cut) ==
    [c EXCEPT !.description = S(Cat(DropLast(c.description.s, cut), Rep(ELL, 1)))]

\* f = e["fields"][0]; f["value"] = val[:-cut] + "…"
CutFirstField(c, cut) ==
    [c EXCEPT !.fields.l[1].value =
                  Cat(DropLast(c.fields.l[1].value, cut), Rep(ELL, 1))]

\* e["description"] = ""
ClearDescription(c) == [c EXCEPT !.description = S(<<>>)]

\* e["fields"].pop(0)
PopFirstField(c) == [c EXCEPT !.fields.l = Tail(c.fields.l)]

\* Lines 228-230 on the clamped card: the short-description cut.
ShortenDescription(c) ==
    IF Truthy(c.description) /\ StrLen(c.description.s) > DESC_SOFT_MAX
    THEN clean_embed([c EXCEPT !.description =
             S(Cat(Prefix(c.description.s, DESC_SOFT_MAX), Rep(ELL, 1)))])
    ELSE c

\* The lines before the loops: clamp, then the short-description cut.
FitStart(c) == ShortenDescription(clean_embed(c))

\* What a turn of the first loop does to the card before it is clamped
\* again (go), or that it leaves the loop (break).
SoftStep(c) ==
    IF Truthy(c.description) /\ StrLen(c.description.s) > 90
    THEN [go |-> TRUE, e |-> CutDescription(c, 60)]
    ELSE IF HasFields(c) /\ StrLen(c.fields.l[1].value) > 120
         THEN [go |-> TRUE, e |-> CutFirstField(c, 80)]
         ELSE [go |-> FALSE, e |-> c]

\* What a turn of the second loop does to the card.
HardStep(c) ==
    IF Truthy(c.description) /\ StrLen(c.description.s) > 30
    THEN [go |-> TRUE, e |-> CutDescription(c, 30)]
    ELSE IF HasFields(c) /\ StrLen(c.fields.l[1].value) > 50
         THEN [go |-> TRUE, e |-> CutFirstField(c, 50)]
         ELSE IF Truthy(c.description)
              THEN [go |-> TRUE, e |-> ClearDescription(c)]
              ELSE IF HasFields(c)
                   THEN [go |-> TRUE, e |-> PopFirstField(c)]
                   ELSE [go |-> FALSE, e |-> c]

RECURSIVE SoftLoop(_, _, _)
RECURSIVE SoftTurn(_, _, _)
\* guard += 1, the step, then "e = _clean_embed(e); continue" or "break".
SoftTurn(step, tgt, g) ==
    IF step.go THEN SoftLoop(clean_embed(step.e), tgt, g + 1)
    ELSE [e |-> step.e, guard |-> g + 1]

\* The first while loop; returns the card and the guard counter.
SoftLoop(c, tgt, g) ==
    IF embed_size(c) > tgt /\ g < GUARD_MAX
    THEN SoftTurn(SoftStep(c), tgt, g)
    ELSE [e |-> c, guard |-> g]

RECURSIVE HardLoop(_, _)
RECURSIVE HardTurn(_, _)
HardTurn(step, g) ==
    IF step.go THEN HardLoop(clean_embed(step.e), g + 1)
    ELSE [e |-> step.e, guard |-> g + 1]

\* The second while loop; returns the card and the guard counter.
HardLoop(c, g) ==
    IF embed_size(c) > DISCORD_MAX_EMBED /\ g < GUARD_MAX
    THEN HardTurn(HardStep(c), g)
    ELSE [e |-> c, guard |-> g]

\* _shrink_to_fit with its two guard counters: [e, guard1, guard2].
FitResult(soft, hard) ==
    [e |-> hard.e, guard1 |-> soft.guard, guard2 |-> hard.guard]

FitHard(soft) == FitResult(soft, HardLoop(soft.e, 0))

FitState(c, tgt) == FitHard(SoftLoop(FitStart(c), tgt, 0))

shrink_to_fit(c, tgt) == FitState(c, tgt).e

-----------------------------------------------------------------------------
(* The segmenter on its own: chunk_text applied to every text of up to     *)
(* MaxLen characters over Alphabet, for every size up to MaxSize.          *)

MaxLen == 5
MaxSize == 3

Alphabet == {"a", SP, NL, HASH, DASH}

RECURSIVE TextsUpTo(_)
TextsUpTo(k) ==
    IF k = 0 THEN {<<>>}
    ELSE LET P == TextsUpTo(k - 1)
         IN  P \cup {Cat(s, Rep(c, 1)) : s \in P, c \in Alphabet}

Texts == TextsUpTo(MaxLen)

\* The variables a specification does not use.
IdleChunk == txt = <<>> /\ size = 0 /\ chunks = <<>>
IdleCard ==
    /\ e = EmptyDict /\ target = 0 /\ out = EmptyDict /\ out2 = EmptyDict
    /\ guard = <<0, 0>>
IdleSend ==
    /\ gen = "none" /\ args = <<>> /\ embeds = <<>> /\ i = 0 /\ payload = <<>>
    /\ attempt = 0 /\ sent = <<>> /\ raised = "none"

cardVars == <<e, target, out, out2, guard>>
sendVars == <<gen, args, embeds, i, payload, attempt, sent, raised>>

InitChunk ==
    /\ pc = "chunk_call"
    /\ txt \in Texts
    /\ size \in 1..MaxSize
    /\ chunks = <<>>
    /\ IdleCard /\ IdleSend

CallChunkText ==
    /\ pc = "chunk_call"
    /\ chunks' = chunk_text(txt, size)
    /\ pc' = "chunk_done"
    /\ UNCHANGED <<txt, size, cardVars, sendVars>>

NextChunk == CallChunkText

SpecChunk == InitChunk /\ [][NextChunk]_vars

-----------------------------------------------------------------------------
(* The clamp and the fitter on their own: _clean_embed and _shrink_to_fit  *)
(* applied to cards drawn from the pools below.                            *)

COLOR == 15105570

A(n) == Rep("a", n)

Card(t, d, f, ft) ==
    [title |-> t, description |-> d, fields |-> f, footer |-> ft,
     color |-> Color(COLOR)]

Field(nm, v) == [name |-> nm, value |-> v]

\* k fields named by nameLen characters, each holding valueLen characters.
SameFields(k, nameLen, valueLen) ==
    Fields([j \in 1..k |-> Field(A(nameLen), A(valueLen))])

CleanTitles ==
    {Absent, None, S(<<>>), S(A(10)), S(Cat(Rep(SP, 1), A(3))),
     S(Cat(A(255), Cat(Rep(SP, 1), Rep("b", 1)))), S(A(300))}

CleanDescriptions == {Absent, S(A(100)), S(A(5000))}

CleanFieldPool ==
    {NoFields, Fields(<<>>),
     Fields(<<Field(A(1), A(450))>>),
     Fields(<<Field(A(1), A(500))>>),
     Fields(<<Field(<<>>, A(5)), Field(A(300), A(2000))>>),
     Fields(<<Field(Cat(Rep(HASH, 1), Cat(Rep(SP, 1), Cat(Rep(HASH, 1), A(1)))),
                    Cat(A(2), Cat(Rep(SP, 3), A(2))))>>)}

CleanFooters == {Absent, None, Footer(A(20))}

InitClean ==
    /\ pc = "clean_call"
    /\ \E t \in CleanTitles, d \in CleanDescriptions,
          f \in CleanFieldPool, ft \in CleanFooters : e = Card(t, d, f, ft)
    /\ target = 0 /\ out = EmptyDict /\ out2 = EmptyDict /\ guard = <<0, 0>>
    /\ IdleChunk /\ IdleSend

CallCleanEmbed ==
    /\ pc = "clean_call"
    /\ \E o \in {clean_embed(e)} :
          /\ out' = o
          /\ out2' = clean_embed(o)
    /\ pc' = "clean_done"
    /\ UNCHANGED <<e, target, guard, txt, size, chunks, sendVars>>

NextClean == CallCleanEmbed

SpecClean == InitClean /\ [][NextClean]_vars

FitTitles == {Absent, S(A(256))}

FitDescriptions ==
    {Absent, S(A(100)), S(A(5000)),
     S(Cat(A(85), Cat(Rep(SP, 70), A(40))))}

FitFieldPool ==
    {NoFields,
     SameFields(1, 1, 450),
     Fields(<<Field(A(1), A(100)), Field(A(1), A(400))>>),
     SameFields(9, 10, 450),
     SameFields(14, 256, 450),
     Fields(<<Field(A(256), A(42)), Field(A(1), A(450))>>)}

FitFooters == {Absent, Footer(A(50)), Footer(A(5100)), Footer(A(7000))}

FitTargets == {300, 3000, EMBED_TARGET_BUDGET}

InitFit ==
    /\ pc = "fit_call"
    /\ \E t \in FitTitles, d \in FitDescriptions,
          f \in FitFieldPool, ft \in FitFooters : e = Card(t, d, f, ft)
    /\ target \in FitTargets
    /\ out = EmptyDict /\ out2 = EmptyDict /\ guard = <<0, 0>>
    /\ IdleChunk /\ IdleSend

CallShrinkToFit ==
    /\ pc = "fit_call"
    /\ \E st \in {FitState(e, target)} :
          /\ out' = st.e
          /\ guard' = <<st.guard1, st.guard2>>
    /\ pc' = "fit_done"
    /\ UNCHANGED <<e, target, out2, txt, size, chunks, sendVars>>

NextFit == CallShrinkToFit

SpecFit == InitFit /\ [][NextFit]_vars

-----------------------------------------------------------------------------
(* _retry_shrink_and_send and _send_embeds_in_batches                      *)

max_retries == 3

\* What the transport can answer: requests.post raises (exc), or returns a
\* response with r.ok and with or without the oversize sentence in r.text.
Responses ==
    {[exc |-> FALSE, ok |-> o, oversize |-> t] : o \in BOOLEAN, t \in BOOLEAN}
        \cup {[exc |-> TRUE, ok |-> FALSE, oversize |-> FALSE]}

\* A mis-classification: every response that is not ok is retried.
ClassifyRetryAll(r) ==
    IF r.exc THEN "exception"
    ELSE IF r.ok THEN "accepted" ELSE "rejected_oversize"

\* Lines 277-281: the exception propagates; r.ok returns; a body without
\* the oversize sentence raises; the rest is retried.
Classify(r) ==
    IF r.exc THEN "exception"
    ELSE IF r.ok THEN "accepted"
         ELSE IF ~r.oversize THEN "rejected_other" ELSE "rejected_oversize"

\* limits[min(attempt, len(limits)-1)]
Limit(limits, att) == limits[Min(att, Len(limits) - 1) + 1]

\* _normalize_text(s)[:lim] + "…"
RetryCut(s, lim) == Cat(Prefix(normalize_text(s), lim), Rep(ELL, 1))

\* Lines 286-289: the description is cut to this attempt's limit.
RetryDescription(em, att) ==
    IF Truthy(em.description)
    THEN [em EXCEPT !.description =
             S(RetryCut(em.description.s, Limit(<<120, 80, 50>>, att)))]
    ELSE em

\* Lines 290-294: the first field's value is cut to this attempt's limit.
RetryField(em, att) ==
    IF HasFields(em)
    THEN [em EXCEPT !.fields.l[1].value =
             RetryCut(em.fields.l[1].value, Limit(<<350, 250, 200>>, att))]
    ELSE em

\* The body of "for em in payload.get('embeds', [])" for one card.
RetryCard(em, att) ==
    clean_embed(shrink_to_fit(RetryField(RetryDescription(em, att), att), 3000))

\* next_embeds
RetryShrink(cards, att) == [j \in 1..Len(cards) |-> RetryCard(cards[j], att)]

\* em.get("title") or em.get("description") or em.get("fields")
NonEmptyCard(em) == Truthy(em.title) \/ Truthy(em.description) \/ HasFields(em)

\* A footer pop that was forgotten.
PopFooterNever(em, j) == em

\* if j > 0 and "footer" in em: em.pop("footer", None)
PopFooter(em, j) ==
    IF j > 0 /\ em.footer.k # "absent" THEN [em EXCEPT !.footer = Absent] ELSE em

\* if _embed_size(em) > EMBED_TARGET_BUDGET: em = _shrink_to_fit(em, 3000)
FitAgain(em) ==
    IF embed_size(em) > EMBED_TARGET_BUDGET THEN shrink_to_fit(em, 3000) ELSE em

\* The body of "for j, em in enumerate(batch)" for one card.
SafeCard(em, j) ==
    clean_embed(FitAgain(shrink_to_fit(PopFooter(em, j), EMBED_TARGET_BUDGET)))

\* embeds[i:i+DISCORD_MAX_EMBEDS], i counted from 0
Batch(cards, k) == SubSeq(cards, k + 1, Min(k + DISCORD_MAX_EMBEDS, Len(cards)))

\* payload["embeds"] as built by _send_embeds_in_batches for one batch.
FirstPayload(batch) ==
    SelectSeq([j \in 1..Len(batch) |-> SafeCard(batch[j], j - 1)], NonEmptyCard)

\* range(max_retries) instead of range(max_retries + 1).
LastAttemptEarly(att) == att = max_retries - 1

\* The for loop over range(max_retries + 1) ends after this attempt.
LastAttempt(att) == att = max_retries

\* The transport call that is being made, with its answer r.
Log(r) ==
    Append(sent, [batch |-> i, attempt |-> attempt, embeds |-> payload, resp |-> r])

\* _send_embeds_in_batches enters its loop body: builds the payload of the
\* batch at i and calls _retry_shrink_and_send.
NextBatch ==
    /\ pc = "batch"
    /\ i < Len(embeds)
    /\ payload' = FirstPayload(Batch(embeds, i))
    /\ attempt' = 0
    /\ pc' = "post"
    /\ UNCHANGED <<gen, args, embeds, i, sent, raised, txt, size, chunks, cardVars>>

\* The loop of _send_embeds_in_batches is over: it returns.
BatchesReturn ==
    /\ pc = "batch"
    /\ i >= Len(embeds)
    /\ pc' = "returned"
    /\ UNCHANGED <<sendVars, txt, size, chunks, cardVars>>

\* requests.post raises (timeout, connection error): nothing catches it.
SendException ==
    /\ pc = "post"
    /\ \E r \in Responses :
          /\ Classify(r) = "exception"
          /\ sent' = Log(r)
    /\ raised' = "transport_exception"
    /\ pc' = "failed"
    /\ UNCHANGED <<gen, args, embeds, i, payload, attempt, txt, size, chunks, cardVars>>

\* r.ok: _retry_shrink_and_send returns, the batch loop moves on.
SendAccepted ==
    /\ pc = "post"
    /\ \E r \in Responses :
          /\ Classify(r) = "accepted"
          /\ sent' = Log(r)
    /\ i' = i + DISCORD_MAX_EMBEDS
    /\ pc' = "batch"
    /\ UNCHANGED <<gen, args, embeds, payload, attempt, raised, txt, size, chunks,
                   cardVars>>

\* A rejection without the oversize sentence: RuntimeError at once.
SendRejectedOther ==
    /\ pc = "post"
    /\ \E r \in Responses :
          /\ Classify(r) = "rejected_other"
          /\ sent' = Log(r)
    /\ raised' = "payload_error"
    /\ pc' = "failed"
    /\ UNCHANGED <<gen, args, embeds, i, payload, attempt, txt, size, chunks, cardVars>>

\* The oversize rejection: every card is shrunk, and the loop either sends
\* again or, after its last attempt, falls through to the final raise.
SendRejectedOversize ==
    /\ pc = "post"
    /\ \E r \in Responses :
          /\ Classify(r) = "rejected_oversize"
          /\ sent' = Log(r)
    /\ payload' = RetryShrink(payload, attempt)
    /\ attempt' = attempt + 1
    /\ IF LastAttempt(attempt)
       THEN raised' = "retries_exhausted" /\ pc' = "failed"
       ELSE raised' = raised /\ pc' = "post"
    /\ UNCHANGED <<gen, args, embeds, i, txt, size, chunks, cardVars>>

-----------------------------------------------------------------------------
(* post_discord_embeds and main                                            *)

\* Texts of the program, by their lengths and their spaces; the letters
\* stand for the words.
\* f"Veille Dev • {date_str} • Window: {HOURS}h • {TZ}"
FooterText == A(52)
\* f"Veille Dev — {date_str} (dernières {HOURS} h)"
TitleText == A(40)
\* "Aucune sortie exploitable retournée par l'IA (clé API/modèle ?)."
PlaceholderText == A(64)
\* "Highlights", "Highlights (suite)", "Sources", "Sources (suite)"
Highlights == Rep("H", 10)
HighlightsSuite == Cat(Rep("H", 10), Cat(Rep(SP, 1), Rep("s", 7)))
Sources == Rep("S", 7)
SourcesSuite == Cat(Rep("S", 7), Cat(Rep(SP, 1), Rep("s", 7)))

\* if len(description) > DESC_SOFT_MAX: description = description[:180] + "…"
ShortDescription(d) ==
    IF StrLen(d) > DESC_SOFT_MAX
    THEN Cat(Prefix(d, DESC_SOFT_MAX), Rep(ELL, 1)) ELSE d

\* description if description else None
DescriptionOrNone(d) == IF d # <<>> THEN S(d) ELSE None

\* first_embed before it is fitted.
FirstEmbed(title, description) ==
    [title       |-> S(Prefix(Strip(title), DISCORD_MAX_TITLE)),
     description |-> DescriptionOrNone(ShortDescription(normalize_text(description))),
     fields      |-> NoFields,
     footer      |-> Footer(FooterText),
     color       |-> Color(COLOR)]

\* One card per chunk, before it is fitted: the first under name, the
\* others under suite.
ChunkCards(cs, name, suite) ==
    [idx \in 1..Len(cs) |->
        [title |-> Absent, description |-> Absent,
         fields |-> Fields(<<Field(IF idx = 1 THEN name ELSE suite, cs[idx])>>),
         footer |-> Absent, color |-> Color(COLOR)]]

\* bullet_chunks and link_chunks: chunk_text(t, FIELD_SOFT_MAX) if t else []
ChunksOf(texts) ==
    [k \in 1..Len(texts) |->
        IF texts[k] # <<>> THEN chunk_text(texts[k], FIELD_SOFT_MAX) ELSE <<>>]

\* The cards in the order post_discord_embeds appends them, each fitted to
\* the target budget where it is built.
FitAll(cards) ==
    [j \in 1..Len(cards) |-> shrink_to_fit(cards[j], EMBED_TARGET_BUDGET)]

\* The cards of the two lists of chunks.
CardsOfChunks(cs) ==
    ChunkCards(cs[1], Highlights, HighlightsSuite)
        \o ChunkCards(cs[2], Sources, SourcesSuite)

\* The list post_discord_embeds hands to _send_embeds_in_batches.
post_discord_embeds(title, description, bullet_text, links_text) ==
    FitAll(<<FirstEmbed(title, description)>>
               \o CardsOfChunks(ChunksOf(<<bullet_text, links_text>>)))

\* "- " + line, as _format_bullets_md and _format_links_md write a line.
Bullet(line) == Cat(Rep(DASH, 1), Cat(Rep(SP, 1), line))

\* What main can hand to post_discord_embeds after a usable generation:
\* the first paragraph, the formatted bullets and the formatted links.
\* The error text of a failed generation has one of the ErrorTexts.
ErrorTexts == {A(60), A(400)}
OkDescriptions == {<<>>, A(120), A(600)}
OkBullets ==
    {<<>>,
     Bullet(A(100)),
     JoinNL([j \in 1..8 |-> Bullet(A(200))]),
     Bullet(A(5000)),
     Bullet(Cat(A(1), Rep(HASH, 5000)))}
OkLinks == {<<>>, JoinNL([j \in 1..12 |-> Bullet(A(90))])}

Init ==
    /\ pc = "main"
    /\ IdleChunk /\ IdleCard /\ IdleSend

\* call_openai_websearch raises: the except clause calls
\* post_discord_embeds with the error text.
GenerationFails ==
    /\ pc = "main"
    /\ gen' = "error"
    /\ \E err \in ErrorTexts : args' = <<TitleText, err, <<>>, <<>>>>
    /\ pc' = "post_embeds"
    /\ UNCHANGED <<embeds, i, payload, attempt, sent, raised, txt, size, chunks,
                   cardVars>>

\* md is missing or shorter than 30 characters: post_discord_embeds is
\* called with the placeholder.
GenerationUnusable ==
    /\ pc = "main"
    /\ gen' = "short"
    /\ args' = <<TitleText, PlaceholderText, <<>>, <<>>>>
    /\ pc' = "post_embeds"
    /\ UNCHANGED <<embeds, i, payload, attempt, sent, raised, txt, size, chunks,
                   cardVars>>

\* A usable md: post_discord_embeds is called with the description, the
\* bullets and the links.
GenerationOk ==
    /\ pc = "main"
    /\ gen' = "ok"
    /\ \E d \in OkDescriptions, b \in OkBullets, l \in OkLinks :
          args' = <<TitleText, d, b, l>>
    /\ pc' = "post_embeds"
    /\ UNCHANGED <<embeds, i, payload, attempt, sent, raised, txt, size, chunks,
                   cardVars>>

\* post_discord_embeds builds its cards and calls _send_embeds_in_batches.
PostDiscordEmbeds ==
    /\ pc = "post_embeds"
    /\ embeds' = post_discord_embeds(args[1], args[2], args[3], args[4])
    /\ i' = 0
    /\ pc' = "batch"
    /\ UNCHANGED <<gen, args, payload, attempt, sent, raised, txt, size, chunks,
                   cardVars>>

\* A main whose except clause ends without "raise".
MainSwallows ==
    /\ pc = "returned"
    /\ gen = "error"
    /\ pc' = "done"
    /\ UNCHANGED <<sendVars, txt, size, chunks, cardVars>>

\* Line 484: the bare raise after the error card was posted.
MainReraises ==
    /\ pc = "returned"
    /\ gen = "error"
    /\ raised' = "generation_error"
    /\ pc' = "failed"
    /\ UNCHANGED <<gen, args, embeds, i, payload, attempt, sent, txt, size, chunks,
                   cardVars>>

\* Lines 493 and 510: main returns.
MainReturns ==
    /\ pc = "returned"
    /\ gen \in {"short", "ok"}
    /\ pc' = "done"
    /\ UNCHANGED <<sendVars, txt, size, chunks, cardVars>>

Next ==
    \/ GenerationFails
    \/ GenerationUnusable
    \/ GenerationOk
    \/ PostDiscordEmbeds
    \/ NextBatch
    \/ BatchesReturn
    \/ SendException
    \/ SendAccepted
    \/ SendRejectedOther
    \/ SendRejectedOversize
    \/ MainReraises
    \/ MainReturns

Spec == Init /\ [][Next]_vars

-----------------------------------------------------------------------------
(* _send_embeds_in_batches on its own, for lists of up to MaxCards cards:  *)
(* every card is base but the one at position p, which is other.  A card's *)
(* color is its position in the list.                                      *)

MaxCards == 12

SendPool ==
    {\* a title, a description and a footer
     Card(S(A(40)), S(A(150)), NoFields, Footer(FooterText)),
     \* one field and a footer
     Card(Absent, Absent, SameFields(1, 10, 450), Footer(FooterText)),
     \* neither title nor description nor fields
     Card(Absent, None, Fields(<<Field(A(1), Rep(HASH, 3))>>), Footer(FooterText)),
     \* a short description under a footer that nearly fills the card
     Card(Absent, S(A(20)), NoFields, Footer(A(5980)))}

CardLists ==
    {[j \in 1..n |-> [(IF j = p THEN other ELSE base) EXCEPT !.color = Color(j)]] :
        n \in 0..MaxCards, p \in 1..MaxCards, base \in SendPool, other \in SendPool}

InitSend ==
    /\ pc = "batch"
    /\ gen = "direct"
    /\ args = <<>>
    /\ embeds \in CardLists
    /\ i = 0 /\ payload = <<>> /\ attempt = 0 /\ sent = <<>> /\ raised = "none"
    /\ IdleChunk /\ IdleCard

NextSend ==
    \/ NextBatch
    \/ BatchesReturn
    \/ SendException
    \/ SendAccepted
    \/ SendRejectedOther
    \/ SendRejectedOversize

SpecSend == InitSend /\ [][NextSend]_vars

-----------------------------------------------------------------------------
(* Claims about chunk_text, under SpecChunk.                               *)

HasChar(s, c) == \E j \in 1..Len(s) : s[j].c = c

\* ceil(a / b)
CeilDiv(a, b) == (a + b - 1) \div b

\* The lines of the input that are not blank, as they stand in the input.
NonEmptyLines(t) == SelectSeq(SplitLines(t), LAMBDA l : Strip(l) # <<>>)

\* The lines chunk_text works on: those of the normalized text, stripped.
NormLines(t) ==
    LET ls == SplitLines(normalize_text(t))
    IN  SelectSeq([j \in 1..Len(ls) |-> Strip(ls[j])], LAMBDA l : l # <<>>)

\* No size-wide slice of s begins or ends with whitespace.
NoSpaceAtSliceEdge(s, sz) ==
    \A k \in 0..(CeilDiv(StrLen(s), sz) - 1) :
        LET sl == Slice(s, k * sz, k * sz + sz)
        IN  sl # <<>> /\ ~IsSpace(sl[1].c) /\ ~IsSpace(sl[Len(sl)].c)

\* C5: every chunk chunk_text returns is at most size long and is neither
\* empty nor whitespace-only.
C5_ChunksBounded ==
    pc = "chunk_done" =>
        \A j \in 1..Len(chunks) :
            /\ StrLen(chunks[j]) <= size
            /\ chunks[j] # <<>>
            /\ Strip(chunks[j]) # <<>>

\* A line longer than size that holds a space was hard-split.
C5_Witness ==
    /\ pc = "chunk_done"
    /\ ~HasChar(txt, NL) /\ HasChar(normalize_text(txt), SP)
    /\ StrLen(normalize_text(txt)) > size
    /\ Len(chunks) >= 2

\* C6 as stated: a single line of length L > size gives exactly
\* ceil(L / size) chunks, all but the last exactly size long, whatever
\* the line holds.
C6_Original ==
    (pc = "chunk_done" /\ ~HasChar(txt, NL) /\ StrLen(txt) > size) =>
        /\ Len(chunks) = CeilDiv(StrLen(txt), size)
        /\ \A j \in 1..(Len(chunks) - 1) : StrLen(chunks[j]) = size

\* C6 amended: for a single line whose normalized form has length
\* L > size and has no whitespace at the edge of a size-wide slice,
\* chunk_text returns exactly ceil(L / size) chunks that concatenate to the
\* normalized line, all but the last exactly size long.
C6_HardSplitExact ==
    LET n == normalize_text(txt)
    IN  (/\ pc = "chunk_done" /\ ~HasChar(txt, NL)
         /\ StrLen(n) > size /\ NoSpaceAtSliceEdge(n, size)) =>
            /\ Len(chunks) = CeilDiv(StrLen(n), size)
            /\ \A j \in 1..(Len(chunks) - 1) : StrLen(chunks[j]) = size
            /\ JoinAll(chunks) = n

\* A hard-split line with a space inside a slice and a shorter last chunk.
C6_Witness ==
    LET n == normalize_text(txt)
    IN  /\ pc = "chunk_done" /\ ~HasChar(txt, NL)
        /\ StrLen(n) > size /\ NoSpaceAtSliceEdge(n, size)
        /\ HasChar(n, SP)
        /\ Len(chunks) >= 2
        /\ StrLen(chunks[Len(chunks)]) < size

\* C7 as stated: the chunks joined with newlines are exactly the non-empty
\* lines of the input, unaltered and in order.
C7_Original ==
    pc = "chunk_done" => JoinNL(chunks) = JoinNL(NonEmptyLines(txt))

\* C7 amended: when no line of the normalized text is longer than size, the
\* chunks joined with newlines are exactly the stripped non-empty lines of
\* the normalized text (_normalize_text of the input), in order.
C7_JoinReproducesNormLines ==
    (pc = "chunk_done" /\ \A j \in 1..Len(NormLines(txt)) :
                              StrLen(NormLines(txt)[j]) <= size) =>
        JoinNL(chunks) = JoinNL(NormLines(txt))

\* Three lines: two share a chunk, the third starts a new one.
C7_Witness ==
    /\ pc = "chunk_done"
    /\ \A j \in 1..Len(NormLines(txt)) : StrLen(NormLines(txt)[j]) <= size
    /\ Len(NormLines(txt)) >= 3
    /\ Len(chunks) >= 2
    /\ \E j \in 1..Len(chunks) : HasChar(chunks[j], NL)

-----------------------------------------------------------------------------
(* Claims about _clean_embed (under SpecClean) and _shrink_to_fit (under   *)
(* SpecFit).                                                               *)

\* A string key that is absent, or holds a non-empty string with no
\* surrounding whitespace of at most max characters.
ClampedStr(v, max) ==
    \/ v.k = "absent"
    \/ v.k = "str" /\ v.s # <<>> /\ Strip(v.s) = v.s /\ StrLen(v.s) <= max

\* The card's subfields are within the hard maxima: title <= 256,
\* description <= 4096, every field with a non-empty normalized name of at
\* most 256 and a non-empty normalized value of at most 1024 characters.
WithinHardMaxima(c) ==
    /\ ClampedStr(c.title, DISCORD_MAX_TITLE)
    /\ ClampedStr(c.description, DISCORD_MAX_DESC)
    /\ c.fields.k = "absent" \/ (c.fields.k = "list" /\ c.fields.l # <<>>)
    /\ \A j \in 1..Len(c.fields.l) :
           LET f == c.fields.l[j]
           IN  /\ f.name # <<>> /\ normalize_text(f.name) = f.name
               /\ f.value # <<>> /\ normalize_text(f.value) = f.value
               /\ StrLen(f.name) <= FIELD_NAME_MAX
               /\ StrLen(f.value) <= FIELD_HARD_MAX
    /\ c.footer.k # "none"

\* C8 as stated: _clean_embed is idempotent, and it leaves a card whose
\* subfields are within the hard maxima as it is.
C8_Original ==
    pc = "clean_done" =>
        /\ out2 = out
        /\ WithinHardMaxima(e) => out = e

\* The description and every field value are at most their minimum working
\* lengths (90 and 120), or are gone.
FixedPoint(c) ==
    /\ ~Truthy(c.description) \/ StrLen(c.description.s) <= 90
    /\ \A j \in 1..Len(c.fields.l) : StrLen(c.fields.l[j].value) <= 120

\* C4 as stated: _shrink_to_fit returns within its guards, with the card's
\* size at most target or with every shrinkable field (the description and
\* every field value) at its minimum working length or gone.
C4_Original ==
    pc = "fit_done" =>
        /\ guard[1] <= GUARD_MAX /\ guard[2] <= GUARD_MAX
        /\ embed_size(out) <= target \/ FixedPoint(out)

-----------------------------------------------------------------------------
(* Claims about _retry_shrink_and_send and _send_embeds_in_batches, under  *)
(* SpecSend.  They are stated on sent, the record of every transport call  *)
(* with the answer it got.                                                 *)

\* The answers of the transport, as the claims name them.
Accepted(x) == ~x.resp.exc /\ x.resp.ok
OversizeRejected(x) == ~x.resp.exc /\ ~x.resp.ok /\ x.resp.oversize
OtherRejected(x) == ~x.resp.exc /\ ~x.resp.ok /\ ~x.resp.oversize

\* C1: a message is sent at most max_retries + 1 = 4 times; a send follows
\* another of the same message exactly when that one met the oversize
\* rejection, and it carries the cards of the rejected send after a shrink
\* step; when the fourth send is rejected too, the retries-exhausted
\* RuntimeError is raised, and it is raised in no other case; the loop is
\* left for the next batch or the return only after an accepted send, and a
\* run that failed has raised an error.
C1_FourSendsThenFatal ==
    /\ \A j \in 1..Len(sent) : sent[j].attempt <= max_retries
    /\ Len(sent) >= 1 => sent[1].attempt = 0
    /\ \A j \in 2..Len(sent) :
           IF OversizeRejected(sent[j - 1])
           THEN /\ sent[j].batch = sent[j - 1].batch
                /\ sent[j].attempt = sent[j - 1].attempt + 1
                /\ sent[j].embeds = RetryShrink(sent[j - 1].embeds, sent[j - 1].attempt)
           ELSE /\ sent[j].batch # sent[j - 1].batch
                /\ sent[j].attempt = 0
    /\ \A j \in 1..Len(sent) :
           (OversizeRejected(sent[j]) /\ sent[j].attempt = max_retries) =>
               j = Len(sent) /\ raised = "retries_exhausted" /\ pc = "failed"
    /\ raised = "retries_exhausted" =>
           /\ Len(sent) >= max_retries + 1
           /\ sent[Len(sent)].attempt = max_retries
           /\ OversizeRejected(sent[Len(sent)])
    /\ \A j \in 1..Len(sent) :
           (\/ j < Len(sent) /\ sent[j + 1].batch # sent[j].batch
            \/ j = Len(sent) /\ pc \in {"batch", "returned", "done"}) =>
               Accepted(sent[j])
    /\ pc = "failed" => raised # "none"

\* Four sends of one message, each rejected as oversize, the last one of
\* other cards than the first: the retries are exhausted.
C1_Witness ==
    /\ raised = "retries_exhausted"
    /\ Len(sent) = max_retries + 1
    /\ sent[1].embeds # <<>>
    /\ sent[Len(sent)].embeds # sent[1].embeds

\* C2: a rejection without the oversize sentence is the last transport call
\* of the run, which has failed with the payload error; and a send of
\* another batch than the send before it is the first send of the next
\* batch, made after that send was accepted.
C2_OtherRejectionTerminal ==
    /\ \A j \in 1..Len(sent) :
           OtherRejected(sent[j]) =>
               j = Len(sent) /\ raised = "payload_error" /\ pc = "failed"
    /\ Len(sent) >= 1 => sent[1].batch = 0
    /\ \A j \in 2..Len(sent) :
           sent[j].batch # sent[j - 1].batch =>
               /\ Accepted(sent[j - 1])
               /\ sent[j].batch = sent[j - 1].batch + DISCORD_MAX_EMBEDS
               /\ sent[j].attempt = 0

\* The first batch of a list of more than ten cards met an oversize
\* rejection and then another rejection: the second batch was never sent.
C2_Witness ==
    /\ Len(embeds) > DISCORD_MAX_EMBEDS
    /\ Len(sent) >= 2
    /\ OversizeRejected(sent[1])
    /\ OtherRejected(sent[Len(sent)])
    /\ sent[Len(sent)].batch = 0
    /\ pc = "failed"

\* C3 as stated: no transport call carries a card whose title, description
\* and fields are all empty, and none carries an empty list of cards.
C3_Original ==
    \A j \in 1..Len(sent) :
        /\ sent[j].embeds # <<>>
        /\ \A k \in 1..Len(sent[j].embeds) : NonEmptyCard(sent[j].embeds[k])

-----------------------------------------------------------------------------
(* Claims about main, under Spec.                                          *)

\* The errors _retry_shrink_and_send ends a run with.
TransportErrors == {"transport_exception", "payload_error", "retries_exhausted"}

\* C10 as stated: after a failed generation the run ends in a failure, a
\* notification was sent before, and the failure is the generation error;
\* after an unusable generation the run ends normally, without raising,
\* with exactly one notification sent.
C10_Original ==
    /\ gen = "error" => pc # "done"
    /\ (gen = "error" /\ pc = "failed") =>
           sent # <<>> /\ raised = "generation_error"
    /\ (gen = "short" /\ pc \in {"done", "failed"}) =>
           Len(sent) = 1 /\ pc = "done" /\ raised = "none"

\* C10 amended: after a failed generation the run never ends normally; it
\* ends after the notification card was handed to the transport, with the
\* generation error when the transport accepted the card and with the
\* transport's own error otherwise.  After an unusable generation the one
\* placeholder card is sent, again only after an oversize rejection and at
\* most four times in all; the run ends normally, without raising, when the
\* transport accepts it, and with the transport's error otherwise.
C10_NotifyThenOutcome ==
    /\ gen = "error" => pc # "done"
    /\ (gen = "error" /\ pc = "failed") =>
           /\ sent # <<>>
           /\ raised = "generation_error" <=> Accepted(sent[Len(sent)])
           /\ raised # "generation_error" => raised \in TransportErrors
    /\ (gen = "short" /\ pc \in {"done", "failed"}) =>
           /\ sent # <<>>
           /\ Len(sent) <= max_retries + 1
           /\ \A j \in 1..Len(sent) :
                  /\ sent[j].batch = 0
                  /\ Len(sent[j].embeds) = 1
                  /\ j < Len(sent) => OversizeRejected(sent[j])
           /\ pc = "done" <=> Accepted(sent[Len(sent)])
           /\ pc = "done" => raised = "none"
           /\ pc = "failed" => raised \in TransportErrors

\* The generation failed, the error card was accepted by the transport and
\* the generation error was raised again.
C10_Witness ==
    /\ gen = "error"
    /\ pc = "failed"
    /\ raised = "generation_error"
    /\ Len(sent) = 1
    /\ Accepted(sent[1])
    /\ Truthy(sent[1].embeds[1].description)

-----------------------------------------------------------------------------
(* Claims about the shrink step of _retry_shrink_and_send, under Spec.     *)

\* len(em["fields"][0]["value"]), 0 for a card without fields.
FirstValueLen(em) == IF HasFields(em) THEN StrLen(em.fields.l[1].value) ELSE 0

\* The cards the shrink step made of those of the j-th transport call: the
\* cards of the next call, or the payload in hand after the last call.
AfterStep(j) == IF j < Len(sent) THEN sent[j + 1].embeds ELSE payload

\* C11 as stated: the shrink step after an oversize rejection, at every
\* attempt 0..3, leaves no card larger than it was: its size, the length of
\* its description and the length of its first field's value do not grow.
C11_Original ==
    \A j \in 1..Len(sent) :
        OversizeRejected(sent[j]) =>
            /\ Len(AfterStep(j)) = Len(sent[j].embeds)
            /\ \A k \in 1..Len(sent[j].embeds) :
                   /\ embed_size(AfterStep(j)[k]) <= embed_size(sent[j].embeds[k])
                   /\ text_len(AfterStep(j)[k].description)
                          <= text_len(sent[j].embeds[k].description)
                   /\ FirstValueLen(AfterStep(j)[k]) <= FirstValueLen(sent[j].embeds[k])

=============================================================================
